---- MODULE Spec2Model ----
(***************************************************************************)
(* A model of boli_blog_downloader/app.py: DownloaderApp.run and the       *)
(* crawl it drives (root page -> archive items -> posts -> images) over    *)
(* the cache directory and the images directory.                           *)
(*                                                                         *)
(* Strings are sequences of lexical tokens: the separator characters       *)
(* ":", "/", ".", "-", "_", "?", "#" and the decimal digits are tokens of  *)
(* their own, every other token is a run of characters that holds none of  *)
(* them.  Bytes are sequences of numbers 0..255.  A page's text is the     *)
(* document it parses to together with its line-ending style.              *)
(***************************************************************************)
EXTENDS Integers, Sequences, FiniteSets, TLC

(***************************************************************************)
(* Bounds of the model.                                                    *)
(***************************************************************************)
MaxRuns == 3
MaxFailures == 2

(***************************************************************************)
(* Sequence helpers (Python list and str operations).                      *)
(***************************************************************************)
Min(a, b) == IF a < b THEN a ELSE b

Max(a, b) == IF a > b THEN a ELSE b

\* reversed(list)
Reverse(s) == [i \in 1..Len(s) |-> s[Len(s) + 1 - i]]

\* s[a:b] with 0 <= a <= b: the slice is cut at the end of s
Slice(s, a, b) == SubSeq(s, a + 1, Min(b, Len(s)))

\* the set of indices of s that hold tok
Occurrences(s, tok) == {i \in 1..Len(s) : s[i] = tok}

SetMin(S) == CHOOSE x \in S : \A y \in S : x <= y

SetMax(S) == CHOOSE x \in S : \A y \in S : x >= y

\* str.find(sub) >= 0
Contains(s, sub) ==
    \E i \in 1..(Len(s) + 1) :
        /\ i + Len(sub) - 1 <= Len(s)
        /\ SubSeq(s, i, i + Len(sub) - 1) = sub

\* str.replace(old, new) for one-character old and new
Replace(s, old, new) == [i \in 1..Len(s) |-> IF s[i] = old THEN new ELSE s[i]]

\* str.split(sep): the segments between the separators, empty ones kept
RECURSIVE Split(_, _)
Split(s, sep) ==
    IF Occurrences(s, sep) = {}
    THEN <<s>>
    ELSE LET k == SetMin(Occurrences(s, sep))
         IN  <<SubSeq(s, 1, k - 1)>> \o Split(SubSeq(s, k + 1, Len(s)), sep)

\* filter(None, list_of_str): the empty strings dropped
RECURSIVE FilterNonEmpty(_)
FilterNonEmpty(l) ==
    IF l = <<>>
    THEN <<>>
    ELSE (IF Head(l) = <<>> THEN <<>> ELSE <<Head(l)>>) \o FilterNonEmpty(Tail(l))

(***************************************************************************)
(* int(str) and f"{n:0Wd}".                                                *)
(***************************************************************************)
DigitChars == <<"0", "1", "2", "3", "4", "5", "6", "7", "8", "9">>

IsDigit(tok) == \E d \in 1..10 : DigitChars[d] = tok

DigitValue(tok) == (CHOOSE d \in 1..10 : DigitChars[d] = tok) - 1

\* int(s) raises ValueError unless s is a non-empty run of digits
IntParses(s) == Len(s) > 0 /\ \A i \in 1..Len(s) : IsDigit(s[i])

RECURSIVE IntOf(_)
IntOf(s) ==
    IF s = <<>>
    THEN 0
    ELSE 10 * IntOf(SubSeq(s, 1, Len(s) - 1)) + DigitValue(s[Len(s)])

RECURSIVE Decimal(_)
Decimal(n) ==
    IF n < 10
    THEN <<DigitChars[n + 1]>>
    ELSE Decimal(n \div 10) \o <<DigitChars[(n % 10) + 1]>>

\* f"{n:0{width}d}" for n >= 0: zero-padded to at least width digits
ZeroPad(n, width) ==
    LET d == Decimal(n)
    IN  [i \in 1..(Max(width, Len(d)) - Len(d)) |-> "0"] \o d

(***************************************************************************)
(* urllib.parse.urlparse(url).path and os.path.splitext(path)[1].          *)
(***************************************************************************)
HasNetloc(url) ==
    /\ Len(url) >= 4
    /\ url[2] = ":" /\ url[3] = "/" /\ url[4] = "/"

\* the url without its scheme and network location
AfterNetloc(url) ==
    IF ~HasNetloc(url)
    THEN url
    ELSE LET rest == SubSeq(url, 5, Len(url))
             stops == {i \in 1..Len(rest) : rest[i] \in {"/", "?", "#"}}
         IN  IF stops = {} THEN <<>>
             ELSE SubSeq(rest, SetMin(stops), Len(rest))

UrlPath(url) ==
    LET rest == AfterNetloc(url)
        stops == {i \in 1..Len(rest) : rest[i] \in {"?", "#"}}
    IN  IF stops = {} THEN rest ELSE SubSeq(rest, 1, SetMin(stops) - 1)

\* the extension starts at the last dot of the last path component, unless
\* only dots precede it there
SplitExt(path) ==
    LET slashes == Occurrences(path, "/")
        start == IF slashes = {} THEN 1 ELSE SetMax(slashes) + 1
        base == SubSeq(path, start, Len(path))
        dots == Occurrences(base, ".")
    IN  IF dots = {} THEN <<>>
        ELSE LET k == SetMax(dots)
             IN  IF \E i \in 1..(k - 1) : base[i] # "."
                 THEN SubSeq(base, k, Len(base))
                 ELSE <<>>

(***************************************************************************)
(* Program constants.                                                      *)
(***************************************************************************)
PAGE_ROOT == <<"https", ":", "/", "/", "boli", "-", "blog", ".", "pl", "/">>

CACHE_DIR == <<"cache">>

IMAGES_DIR == <<"images">>

CONTENT_SOURCES ==
    << <<"googleusercontent", ".", "com">>, <<"blogspot", ".", "com">> >>

SNIFF_LEN == 32

PNG_MAGIC == <<137, 80, 78, 71>>

JFIF_MAGIC == <<255, 216, 255, 224, 0, 16, 74, 70, 73, 70>>

GIF89A_MAGIC == <<71, 73, 70, 56, 57, 97>>

EXT_DAT == <<".", "dat">>

EXT_PNG == <<".", "png">>

EXT_JPG == <<".", "jpg">>

EXT_GIF == <<".", "gif">>

(***************************************************************************)
(* The site: the pages and images the network serves.  A parsed page is    *)
(* what the tag and attribute queries of the crawl see of it: the anchors  *)
(* of the archive widget, the post articles, and the images of the first   *)
(* entry-content block.                                                    *)
(***************************************************************************)
HrefOct == PAGE_ROOT \o <<"2", "0", "2", "3", "/", "1", "0", "/">>

HrefDec == PAGE_ROOT \o <<"2", "0", "1", "5", "/", "1", "2", "/">>

HrefApr == PAGE_ROOT \o <<"2", "0", "1", "1", "/", "0", "4", "/">>

HrefAbout == PAGE_ROOT \o <<"about", "/">>

HrefSlash == <<"/">>

PostHref(name) == PAGE_ROOT \o <<name, "/">>

\* a post address that differs from HrefOct in one character only
HrefUnderscore == PAGE_ROOT \o <<"2", "0", "2", "3", "_", "1", "0", "/">>

NoStr == <<>>

Blogspot(file) == <<"https", ":", "/", "/", "bp", ".", "blogspot", ".", "com", "/">> \o file

Google(file) ==
    <<"https", ":", "/", "/", "lh3", ".", "googleusercontent", ".", "com", "/">> \o file

ImgPng == Blogspot(<<"a", ".", "png">>)

ImgBig == Google(<<"big">>)

ImgNedroid == <<"http", ":", "/", "/", "nedroid", ".", "com", "/", "c", ".", "png">>

ImgOld == Google(<<"old">>)

ImgWebp == Blogspot(<<"w", ".", "webp", "?", "s", "=", "1", ".", "jpg">>)

ImgRaw == Google(<<"raw">>)

ImgAnim == Blogspot(<<"g", ".", "jpg">>)

ImgTrack ==
    <<"http", ":", "/", "/", "ads", ".", "example", "/", "t", ".", "gif",
      "?", "ref", "=", "blogspot", ".", "com">>

ImgGone == Blogspot(<<"gone", ".", "png">>)

ImageUrls ==
    {ImgPng, ImgBig, ImgNedroid, ImgOld, ImgWebp, ImgRaw, ImgAnim, ImgTrack, ImgGone}

\* the bytes the network serves for an image address (ImgGone is not served)
ImageBody(url) ==
    CASE url = ImgPng -> PNG_MAGIC \o <<13, 10, 26, 10>>
      [] url = ImgBig -> JFIF_MAGIC \o <<0, 1>>
      [] url = ImgNedroid -> PNG_MAGIC \o <<1>>
      [] url = ImgOld -> <<71, 73, 70, 56, 55, 97, 1, 0>>
      [] url = ImgWebp -> <<82, 73, 70, 70>>
      [] url = ImgRaw -> <<0, 0, 0>>
      [] url = ImgAnim -> GIF89A_MAGIC \o <<2, 0>>
      [] url = ImgTrack -> <<71, 73>>
      [] OTHER -> <<>>

ImageServed(url) == url \in ImageUrls \ {ImgGone}

Anchor(href) == [hasHref |-> TRUE, href |-> href]

AnchorNoHref == [hasHref |-> FALSE, href |-> NoStr]

Article(id, href) == [hasId |-> TRUE, id |-> id, title |-> "ok", href |-> href]

PostId(n) == <<"post", "-">> \o n

Img(src) == [hasSrc |-> TRUE, src |-> src, parent |-> "p", href |-> NoStr]

LinkedImg(src, href) == [hasSrc |-> TRUE, src |-> src, parent |-> "a", href |-> href]

EmptyPage ==
    [hasArchive |-> FALSE, archive |-> <<>>, articles |-> <<>>,
     hasContent |-> FALSE, images |-> <<>>]

RootPage(anchors) == [EmptyPage EXCEPT !.hasArchive = TRUE, !.archive = anchors]

ListingPage(articles) == [EmptyPage EXCEPT !.articles = articles]

PostPage(images) == [EmptyPage EXCEPT !.hasContent = TRUE, !.images = images]

\* the documents of the site, by name
Document(name) ==
    CASE name = "root3" -> RootPage(<<Anchor(HrefOct), Anchor(HrefDec), Anchor(HrefApr)>>)
      [] name = "root1" -> RootPage(<<Anchor(HrefOct)>>)
      [] name = "root0" -> RootPage(<<>>)
      [] name = "root_nowidget" -> EmptyPage
      [] name = "root_nohref" -> RootPage(<<Anchor(HrefOct), AnchorNoHref>>)
      [] name = "root_about" -> RootPage(<<Anchor(HrefOct), Anchor(HrefAbout)>>)
      [] name = "root_slash" -> RootPage(<<Anchor(HrefSlash), Anchor(HrefOct)>>)
      [] name = "apr_ok" ->
            ListingPage(<<Article(PostId(<<"7">>), PostHref("first")),
                          Article(PostId(<<"4", "2">>), PostHref("second"))>>)
      [] name = "apr_noid" ->
            ListingPage(<<Article(PostId(<<"7">>), PostHref("first")),
                          [Article(NoStr, PostHref("second")) EXCEPT !.hasId = FALSE]>>)
      [] name = "apr_notitle" ->
            ListingPage(<<[Article(PostId(<<"7">>), NoStr) EXCEPT !.title = "none"],
                          Article(PostId(<<"4", "2">>), PostHref("second"))>>)
      [] name = "apr_noanchor" ->
            ListingPage(<<[Article(PostId(<<"7">>), NoStr) EXCEPT !.title = "noanchor"],
                          Article(PostId(<<"4", "2">>), PostHref("second"))>>)
      [] name = "apr_notitlehref" ->
            ListingPage(<<[Article(PostId(<<"7">>), NoStr) EXCEPT !.title = "nohref"],
                          Article(PostId(<<"4", "2">>), PostHref("second"))>>)
      [] name = "apr_idtokens" ->
            ListingPage(<<Article(PostId(<<"4", "-", "2">>), PostHref("second")),
                          Article(PostId(<<"7">>), PostHref("first"))>>)
      [] name = "apr_idword" ->
            ListingPage(<<Article(PostId(<<"abc">>), PostHref("second"))>>)
      [] name = "apr_nocontent" ->
            ListingPage(<<Article(PostId(<<"7">>), PostHref("nocontent")),
                          Article(PostId(<<"4", "2">>), PostHref("second"))>>)
      [] name = "apr_nosrc" ->
            ListingPage(<<Article(PostId(<<"7">>), PostHref("nosrc"))>>)
      [] name = "apr_nolinkhref" ->
            ListingPage(<<Article(PostId(<<"7">>), PostHref("nolinkhref"))>>)
      [] name = "apr_gonepost" ->
            ListingPage(<<Article(PostId(<<"7">>), PostHref("gone"))>>)
      [] name = "apr_goneimage" ->
            ListingPage(<<Article(PostId(<<"7">>), PostHref("goneimage"))>>)
      [] name = "apr_underscore" ->
            ListingPage(<<Article(PostId(<<"7">>), HrefUnderscore)>>)
      [] name = "dec" -> ListingPage(<<>>)
      [] name = "oct" ->
            [ListingPage(<<Article(PostId(<<"1", "0", "0">>), PostHref("third"))>>)
                EXCEPT !.hasContent = TRUE, !.images = <<Img(ImgRaw)>>]
      [] name = "first" ->
            PostPage(<<LinkedImg(ImgPng, ImgBig), Img(ImgNedroid), Img(ImgOld)>>)
      [] name = "second" ->
            PostPage(<<Img(ImgWebp), Img(ImgRaw), Img(ImgAnim), Img(ImgTrack)>>)
      [] name = "third" -> PostPage(<<Img(ImgPng)>>)
      [] name = "nocontent" -> EmptyPage
      [] name = "nosrc" ->
            PostPage(<<Img(ImgPng), [Img(NoStr) EXCEPT !.hasSrc = FALSE]>>)
      [] name = "nolinkhref" ->
            PostPage(<<[Img(ImgPng) EXCEPT !.parent = "a_nohref"]>>)
      [] name = "goneimage" -> PostPage(<<Img(ImgPng), Img(ImgGone), Img(ImgRaw)>>)
      [] OTHER -> EmptyPage

RootDocuments ==
    {"root3", "root1", "root0", "root_nowidget", "root_nohref", "root_about", "root_slash"}

AprilDocuments ==
    {"apr_ok", "apr_noid", "apr_notitle", "apr_noanchor", "apr_notitlehref",
     "apr_idtokens", "apr_idword", "apr_nocontent", "apr_nosrc", "apr_nolinkhref",
     "apr_gonepost", "apr_goneimage", "apr_underscore"}

\* a site is the root page it serves and the listing page of April 2011
Sites ==
    {[root |-> "root3", april |-> a] : a \in AprilDocuments}
        \cup {[root |-> r, april |-> "apr_ok"] : r \in RootDocuments}

PostNames == {"first", "second", "third", "nocontent", "nosrc", "nolinkhref", "goneimage"}

\* the document served at a page address, "" when the site has none there
DocumentAt(s, href) ==
    CASE href = PAGE_ROOT -> s.root
      [] href = HrefApr -> s.april
      [] href = HrefDec -> "dec"
      [] href = HrefOct -> "oct"
      [] href = HrefUnderscore -> "first"
      [] \E n \in PostNames : href = PostHref(n) ->
            CHOOSE n \in PostNames : href = PostHref(n)
      [] OTHER -> ""

PageServed(s, href) == DocumentAt(s, href) # ""

\* the text of a response: the root and listing pages are served with CRLF
\* line endings, the post pages with LF
PageText(s, href) ==
    [doc |-> DocumentAt(s, href),
     nl |-> IF href \in {PAGE_ROOT, HrefApr, HrefDec, HrefOct} THEN "crlf" ELSE "lf"]

NoText == [doc |-> "", nl |-> "lf"]

\* BeautifulSoup(page_text, "html.parser"): the line-ending style does not
\* change the elements and attributes found
BeautifulSoup(text) == Document(text.doc)

(***************************************************************************)
(* Exceptions.  A raised exception is its class name, "" is none; `cause`  *)
(* says what was wrong, for the record of the run.                         *)
(***************************************************************************)
NoExc == [exc |-> "", cause |-> ""]

Raise(exc, cause) == [exc |-> exc, cause |-> cause]

\* run(): except (DownloaderException, requests.HTTPError)
Caught(exc) == exc \in {"DownloaderException", "HTTPError"}

(***************************************************************************)
(* The network: __request_data.  `fault` is what the network does to the   *)
(* request: "none", "status" (a non-success status), "timeout".  An        *)
(* address the site does not serve answers with a non-success status.      *)
(***************************************************************************)
Faults == {"none", "status", "timeout"}

Served(s, href) == PageServed(s, href) \/ ImageServed(href)

\* requests.get(href, timeout=...) raises requests.Timeout on a timeout,
\* response.raise_for_status() raises requests.HTTPError
RequestData(s, href, fault) ==
    IF fault = "timeout"
    THEN [exc |-> "Timeout", cause |-> "fetch_timeout", text |-> NoText, content |-> <<>>]
    ELSE IF fault = "status" \/ ~Served(s, href)
    THEN [exc |-> "HTTPError", cause |-> "fetch_status", text |-> NoText, content |-> <<>>]
    ELSE [exc |-> "", cause |-> "",
          text |-> IF PageServed(s, href) THEN PageText(s, href) ELSE NoText,
          content |-> ImageBody(href)]

(***************************************************************************)
(* The cache directory: __download_page and __download_image.              *)
(***************************************************************************)
IsFile(dir, path) == path \in DOMAIN dir

WriteFile(dir, path, data) == (path :> data) @@ dir

\* open(mode="wt", encoding="utf-8").write(text): with "\n" as the line
\* separator of the platform the text is stored as it is
WriteText(text) == text

\* open(mode="rt", encoding="utf-8").read(): universal newlines, "\r\n" and
\* "\r" are read as "\n"
ReadText(stored) == [stored EXCEPT !.nl = "lf"]

\* href.replace(":", "_").replace("/", "_")
PageFileName(href) == Replace(Replace(href, ":", "_"), "/", "_")

PagePath(href) == CACHE_DIR \o <<"/">> \o PageFileName(href) \o <<".", "html">>

\* hashlib.sha256(href.encode()).hexdigest(): one digest per address
Sha256Hex(href) == <<"sha256(">> \o href \o <<")">>

ImagePath(href) == CACHE_DIR \o <<"/">> \o Sha256Hex(href) \o <<".", "bin">>

\* whether the download answers from the cache
PageCached(dir, href, use_cache) == use_cache /\ IsFile(dir, PagePath(href))

ImageCached(dir, href, use_cache) == use_cache /\ IsFile(dir, ImagePath(href))

\* a variant that opens the file before the request is made
StoreFetchedEarly(dir, path, response, data) == WriteFile(dir, path, data)

\* the cache directory after the request of a download that was not
\* answered from the cache: the file is opened once the response is there
StoreFetched(dir, path, response, data) ==
    IF response.exc # "" THEN dir ELSE WriteFile(dir, path, data)

\* __download_page: response is the answer of the network, used only when
\* the page is not taken from the cache
DownloadPage(dir, href, use_cache, response) ==
    IF PageCached(dir, href, use_cache)
    THEN [exc |-> "", cause |-> "", value |-> ReadText(dir[PagePath(href)]),
          dir |-> dir, fetched |-> FALSE]
    ELSE [exc |-> response.exc, cause |-> response.cause, value |-> response.text,
          dir |-> StoreFetched(dir, PagePath(href), response, WriteText(response.text)),
          fetched |-> TRUE]

\* __download_image
DownloadImage(dir, href, use_cache, response) ==
    IF ImageCached(dir, href, use_cache)
    THEN [exc |-> "", cause |-> "", value |-> dir[ImagePath(href)],
          dir |-> dir, fetched |-> FALSE]
    ELSE [exc |-> response.exc, cause |-> response.cause, value |-> response.content,
          dir |-> StoreFetched(dir, ImagePath(href), response, response.content),
          fetched |-> TRUE]

(***************************************************************************)
(* __download_root_page: the archive items.                                *)
(***************************************************************************)
\* a variant that keeps the document order
ArchiveOrderDocument(archive_list) == archive_list

\* for archive_item in reversed(archive_list)
ArchiveOrder(archive_list) == Reverse(archive_list)

\* one anchor: its href, the tokens, DownloadItem(int(tokens[1]), int(tokens[0]), href)
ParseAnchor(archive_item) ==
    IF ~archive_item.hasHref
    THEN [exc |-> "DownloaderException", cause |-> "archive_href_missing", items |-> <<>>]
    ELSE LET tokens == Reverse(FilterNonEmpty(Split(archive_item.href, "/")))
         IN  IF Len(tokens) < 2
             THEN [exc |-> "IndexError", cause |-> "archive_href_format", items |-> <<>>]
             ELSE IF ~IntParses(tokens[2]) \/ ~IntParses(tokens[1])
             THEN [exc |-> "ValueError", cause |-> "archive_href_format", items |-> <<>>]
             ELSE [exc |-> "", cause |-> "",
                   items |-> <<[year |-> IntOf(tokens[2]), month |-> IntOf(tokens[1]),
                                href |-> archive_item.href]>>]

RECURSIVE ParseAnchors(_)
ParseAnchors(anchors) ==
    IF anchors = <<>>
    THEN [exc |-> "", cause |-> "", items |-> <<>>]
    ELSE LET one == ParseAnchor(Head(anchors))
         IN  IF one.exc # ""
             THEN one
             ELSE LET rest == ParseAnchors(Tail(anchors))
                  IN  IF rest.exc # ""
                      THEN rest
                      ELSE [rest EXCEPT !.items = one.items \o rest.items]

\* the items of a parsed root page
ArchiveItems(soup) ==
    IF ~soup.hasArchive
    THEN [exc |-> "DownloaderException", cause |-> "archive_missing", items |-> <<>>]
    ELSE ParseAnchors(ArchiveOrder(soup.archive))

(***************************************************************************)
(* __process_item and __process_post: the checks of an article, the post   *)
(* ID, the image sources of a post page.                                   *)
(***************************************************************************)
\* a variant that never refreshes
ItemUseCacheAlways(refresh) == TRUE

\* __process_item: use_cache=False if refresh else True
ItemUseCache(refresh) == IF refresh THEN FALSE ELSE TRUE

\* a variant that checks the ID of an article only
ArticleCheckIdOnly(article) ==
    IF ~article.hasId THEN Raise("DownloaderException", "post_id_missing") ELSE NoExc

ArticleCheck(article) ==
    IF ~article.hasId THEN Raise("DownloaderException", "post_id_missing")
    ELSE IF article.title = "none" THEN Raise("DownloaderException", "title_missing")
    ELSE IF article.title = "noanchor" THEN Raise("DownloaderException", "title_anchor_missing")
    ELSE IF article.title = "nohref" THEN Raise("DownloaderException", "title_href_missing")
    ELSE NoExc

\* id_tokens = post_id.split("-"); f"{int(id_tokens[1]):010d}"
PostIdString(post_id) ==
    LET id_tokens == Split(post_id, "-")
    IN  IF Len(id_tokens) # 2
        THEN [exc |-> "DownloaderException", cause |-> "post_id_format", id_string |-> NoStr]
        ELSE IF ~IntParses(id_tokens[2])
        THEN [exc |-> "ValueError", cause |-> "post_id_number", id_string |-> NoStr]
        ELSE [exc |-> "", cause |-> "", id_string |-> ZeroPad(IntOf(id_tokens[2]), 10)]

\* the sources one image adds: its src, and the href of a parent link
ImageCandidates(image) ==
    IF ~image.hasSrc
    THEN [exc |-> "DownloaderException", cause |-> "image_src_missing", sources |-> <<>>]
    ELSE IF image.parent = "p"
    THEN [exc |-> "", cause |-> "", sources |-> <<image.src>>]
    ELSE IF image.parent = "a_nohref"
    THEN [exc |-> "DownloaderException", cause |-> "image_link_href_missing", sources |-> <<>>]
    ELSE [exc |-> "", cause |-> "", sources |-> <<image.src, image.href>>]

RECURSIVE CollectSources(_)
CollectSources(images) ==
    IF images = <<>>
    THEN [exc |-> "", cause |-> "", sources |-> <<>>]
    ELSE LET one == ImageCandidates(Head(images))
         IN  IF one.exc # ""
             THEN one
             ELSE LET rest == CollectSources(Tail(images))
                  IN  IF rest.exc # ""
                      THEN rest
                      ELSE [rest EXCEPT !.sources = one.sources \o rest.sources]

\* the image sources of a parsed post page
ImageSources(soup) ==
    IF ~soup.hasContent
    THEN [exc |-> "DownloaderException", cause |-> "content_missing", sources |-> <<>>]
    ELSE CollectSources(soup.images)

\* a variant that takes every source
SourceValidAny(image_source) == TRUE

\* image_source.find(source) >= 0 for a source of CONTENT_SOURCES
SourceValid(image_source) ==
    \E k \in 1..Len(CONTENT_SOURCES) : Contains(image_source, CONTENT_SOURCES[k])

\* the extension of the output file
ImageExt(image_data, image_source) ==
    LET subset == Slice(image_data, 0, SNIFF_LEN)
        sniffed == IF Slice(subset, 0, 4) = PNG_MAGIC THEN EXT_PNG
                   ELSE IF Slice(subset, 0, 10) = JFIF_MAGIC THEN EXT_JPG
                   ELSE IF Slice(subset, 0, 6) = GIF89A_MAGIC THEN EXT_GIF
                   ELSE EXT_DAT
    IN  IF sniffed # EXT_DAT
        THEN sniffed
        ELSE LET ext == SplitExt(UrlPath(image_source))
             IN  IF Len(ext) = 0 THEN EXT_DAT ELSE ext

\* f"{item.year:04d}-{item.month:02d}-{id_string}-{subid:04d}"
FileName(item, id_string, subid) ==
    ZeroPad(item.year, 4) \o <<"-">> \o ZeroPad(item.month, 2) \o <<"-">>
        \o id_string \o <<"-">> \o ZeroPad(subid, 4)

FilePath(file_name, ext) == IMAGES_DIR \o <<"/">> \o file_name \o ext

\* a variant that does not count
NextSubidSame(subid) == subid

\* subid = subid + 1
NextSubid(subid) == subid + 1

(***************************************************************************)
(* run(): what the invocation ends with for the exception that reached     *)
(* its try block ("" when none did).  An exception that is not caught      *)
(* leaves run() without a result.                                          *)
(***************************************************************************)
RunOutcome(exc) ==
    IF exc = "" THEN [pc |-> "returned", result |-> 0]
    ELSE IF Caught(exc) THEN [pc |-> "returned", result |-> 1]
    ELSE [pc |-> "raised", result |-> -1]

(***************************************************************************)
(* The state.                                                              *)
(***************************************************************************)
VARIABLES
    site,           \* what the network serves
    cache,          \* the files of the cache directory: path -> content
    images,         \* the files of the images directory: path -> bytes
    run,            \* the number of the invocation of run()
    pc,             \* where the invocation is
    result,         \* what run() returned, -1 while it has not
    exception,      \* the exception that ended run(), "" when none
    failures,       \* the faults of the network so far
    items,          \* __process_items: the items
    last_item,      \* __process_items: items.pop()
    item_index,     \* the item at work; past the items it is last_item
    item,           \* __process_item: item
    articles,       \* __process_item: the articles of the listing page
    article_index,  \* the article at work
    post_id,        \* __process_post: post_id
    id_string,      \* __process_post: id_string
    image_sources,  \* __process_post: image_sources
    source_index,   \* the image source at work
    subid,          \* __process_post: subid
    failure,        \* record: what failed in this invocation, "" when nothing
    requests,       \* record: the downloads of this invocation, in order
    download,       \* record: the last download, with its contents
    written,        \* record: the image files written by this invocation
    visit,          \* record: the number of posts this invocation entered
    previous        \* record: how the invocation before this one ended

disk == <<cache, images>>

control == <<run, pc, result, exception, failure>>

crawl ==
    <<items, last_item, item_index, item, articles, article_index, post_id,
      id_string, image_sources, source_index, subid, visit>>

records == <<requests, download, written, previous>>

vars == <<site, disk, control, failures, crawl, records>>

NoItem == [year |-> 0, month |-> 0, href |-> NoStr]

NoDownload ==
    [kind |-> "none", role |-> "none", href |-> NoStr, path |-> NoStr,
     use_cache |-> TRUE, existed |-> FALSE, exc |-> "", fetched |-> FALSE,
     wrote |-> FALSE, before |-> <<>>, value |-> <<>>]

NoPrevious ==
    [pc |-> "none", result |-> -1, images |-> <<>>, cached |-> {}]

Init ==
    /\ site \in Sites
    /\ cache = <<>>
    /\ images = <<>>
    /\ run = 1
    /\ pc = "start"
    /\ result = -1
    /\ exception = ""
    /\ failures = 0
    /\ items = <<>>
    /\ last_item = NoItem
    /\ item_index = 0
    /\ item = NoItem
    /\ articles = <<>>
    /\ article_index = 0
    /\ post_id = NoStr
    /\ id_string = NoStr
    /\ image_sources = <<>>
    /\ source_index = 0
    /\ subid = 0
    /\ failure = ""
    /\ requests = <<>>
    /\ download = NoDownload
    /\ written = <<>>
    /\ visit = 0
    /\ previous = NoPrevious

\* the faults the network may add to a request; none when no request is made
FaultChoices(requested) ==
    IF requested /\ failures < MaxFailures THEN Faults ELSE {"none"}

\* the exception e ends the invocation
Abort(e) ==
    /\ pc' = RunOutcome(e.exc).pc
    /\ result' = RunOutcome(e.exc).result
    /\ exception' = e.exc
    /\ failure' = e.cause

\* the invocation ends without an exception
Return ==
    /\ pc' = RunOutcome("").pc
    /\ result' = RunOutcome("").result
    /\ UNCHANGED <<exception, failure>>

\* the record of a download
Recorded(kind, role, href, path, use_cache, got, fault) ==
    /\ download' =
            [kind |-> kind, role |-> role, href |-> href, path |-> path,
             use_cache |-> use_cache, existed |-> IsFile(cache, path),
             exc |-> got.exc, fetched |-> got.fetched,
             wrote |-> got.dir # cache \/ (got.fetched /\ got.exc = ""),
             before |-> IF IsFile(cache, path) THEN cache[path] ELSE <<>>,
             value |-> got.value]
    /\ requests' = Append(requests,
            [kind |-> kind, role |-> role, href |-> href, path |-> path,
             use_cache |-> use_cache, existed |-> IsFile(cache, path),
             exc |-> got.exc, fetched |-> got.fetched])
    /\ failures' = IF fault = "none" THEN failures ELSE failures + 1

(***************************************************************************)
(* run() up to __process_items: __download_root_page.                      *)
(***************************************************************************)
DownloadRootPage ==
    /\ pc = "start"
    /\ \E fault \in FaultChoices(~PageCached(cache, PAGE_ROOT, TRUE)) :
        LET response == RequestData(site, PAGE_ROOT, fault)
            page == DownloadPage(cache, PAGE_ROOT, TRUE, response)
            parsed == IF page.exc # ""
                      THEN [exc |-> page.exc, cause |-> page.cause, items |-> <<>>]
                      ELSE ArchiveItems(BeautifulSoup(page.value))
        IN  /\ cache' = page.dir
            /\ Recorded("page", "root", PAGE_ROOT, PagePath(PAGE_ROOT), TRUE, page, fault)
            /\ items' = parsed.items
            /\ IF parsed.exc # ""
               THEN Abort(parsed)
               ELSE /\ pc' = "process_items"
                    /\ UNCHANGED <<result, exception, failure>>
    /\ UNCHANGED <<site, images, run, written, previous>>
    /\ UNCHANGED <<last_item, item_index, item, articles, article_index, post_id,
                   id_string, image_sources, source_index, subid, visit>>

(***************************************************************************)
(* __process_items.                                                        *)
(***************************************************************************)
ProcessItems ==
    /\ pc = "process_items"
    /\ IF Len(items) = 0
       THEN /\ Return
            /\ UNCHANGED <<items, last_item, item_index>>
       ELSE /\ last_item' = items[Len(items)]
            /\ items' = SubSeq(items, 1, Len(items) - 1)
            /\ item_index' = 1
            /\ pc' = "process_item"
            /\ UNCHANGED <<result, exception, failure>>
    /\ UNCHANGED <<site, disk, run, failures, records>>
    /\ UNCHANGED <<item, articles, article_index, post_id, id_string,
                   image_sources, source_index, subid, visit>>

(***************************************************************************)
(* __process_item up to its loop over the articles.                        *)
(***************************************************************************)
ProcessItem ==
    /\ pc = "process_item"
    /\ LET refresh == item_index > Len(items)
           it == IF refresh THEN last_item ELSE items[item_index]
           use_cache == ItemUseCache(refresh)
       IN  \E fault \in FaultChoices(~PageCached(cache, it.href, use_cache)) :
            LET response == RequestData(site, it.href, fault)
                page == DownloadPage(cache, it.href, use_cache, response)
            IN  /\ cache' = page.dir
                /\ Recorded("page", "listing", it.href, PagePath(it.href), use_cache,
                            page, fault)
                /\ item' = it
                /\ IF page.exc # ""
                   THEN /\ Abort(page)
                        /\ UNCHANGED <<articles, article_index>>
                   ELSE /\ articles' = BeautifulSoup(page.value).articles
                        /\ article_index' = 1
                        /\ pc' = "article"
                        /\ UNCHANGED <<result, exception, failure>>
    /\ UNCHANGED <<site, images, run, written, previous>>
    /\ UNCHANGED <<items, last_item, item_index, post_id, id_string, image_sources,
                   source_index, subid, visit>>

\* the loop over the articles is over: the next item, or the end of run()
EndItem ==
    /\ pc = "article"
    /\ article_index > Len(articles)
    /\ IF item_index > Len(items)
       THEN /\ Return
            /\ UNCHANGED item_index
       ELSE /\ item_index' = item_index + 1
            /\ pc' = "process_item"
            /\ UNCHANGED <<result, exception, failure>>
    /\ UNCHANGED <<site, disk, run, failures, records>>
    /\ UNCHANGED <<items, last_item, item, articles, article_index, post_id,
                   id_string, image_sources, source_index, subid, visit>>

(***************************************************************************)
(* One article of __process_item, and __process_post up to its loop over   *)
(* the image sources.                                                      *)
(***************************************************************************)
ProcessPost ==
    /\ pc = "article"
    /\ article_index <= Len(articles)
    /\ LET article == articles[article_index]
           checked == ArticleCheck(article)
           ids == IF checked.exc # ""
                  THEN [exc |-> checked.exc, cause |-> checked.cause, id_string |-> NoStr]
                  ELSE PostIdString(article.id)
       IN  IF ids.exc # ""
           THEN /\ Abort(ids)
                /\ UNCHANGED <<cache, failures, requests, download>>
                /\ UNCHANGED <<post_id, id_string, image_sources, source_index, subid, visit>>
           ELSE \E fault \in FaultChoices(~PageCached(cache, article.href, TRUE)) :
                LET response == RequestData(site, article.href, fault)
                    page == DownloadPage(cache, article.href, TRUE, response)
                    found == IF page.exc # ""
                             THEN [exc |-> page.exc, cause |-> page.cause, sources |-> <<>>]
                             ELSE ImageSources(BeautifulSoup(page.value))
                IN  /\ cache' = page.dir
                    /\ Recorded("page", "post", article.href, PagePath(article.href),
                                TRUE, page, fault)
                    /\ post_id' = article.id
                    /\ id_string' = ids.id_string
                    /\ visit' = visit + 1
                    /\ image_sources' = found.sources
                    /\ source_index' = 1
                    /\ subid' = 0
                    /\ IF found.exc # ""
                       THEN Abort(found)
                       ELSE /\ pc' = "image"
                            /\ UNCHANGED <<result, exception, failure>>
    /\ UNCHANGED <<site, images, run, written, previous>>
    /\ UNCHANGED <<items, last_item, item_index, item, articles, article_index>>

\* the loop over the image sources is over: the next article
EndPost ==
    /\ pc = "image"
    /\ source_index > Len(image_sources)
    /\ article_index' = article_index + 1
    /\ pc' = "article"
    /\ UNCHANGED <<site, disk, run, result, exception, failure, failures, records>>
    /\ UNCHANGED <<items, last_item, item_index, item, articles, post_id,
                   id_string, image_sources, source_index, subid, visit>>

(***************************************************************************)
(* One image source of __process_post.                                     *)
(***************************************************************************)
ProcessImage ==
    /\ pc = "image"
    /\ source_index <= Len(image_sources)
    /\ LET image_source == image_sources[source_index]
       IN  IF ~SourceValid(image_source)
           THEN /\ source_index' = source_index + 1
                /\ UNCHANGED <<disk, control, failures, records, subid>>
           ELSE \E fault \in FaultChoices(~ImageCached(cache, image_source, TRUE)) :
                LET response == RequestData(site, image_source, fault)
                    got == DownloadImage(cache, image_source, TRUE, response)
                    ext == ImageExt(got.value, image_source)
                    file_path == FilePath(FileName(item, id_string, subid), ext)
                IN  /\ cache' = got.dir
                    /\ Recorded("image", "image", image_source, ImagePath(image_source),
                                TRUE, got, fault)
                    /\ IF got.exc # ""
                       THEN /\ Abort(got)
                            /\ UNCHANGED <<images, written, subid, source_index, run>>
                       ELSE /\ images' = WriteFile(images, file_path, got.value)
                            /\ written' = Append(written,
                                    [path |-> file_path, item |-> item, post_id |-> post_id,
                                     visit |-> visit, source |-> image_source,
                                     ext |-> ext, data |-> got.value])
                            /\ subid' = NextSubid(subid)
                            /\ source_index' = source_index + 1
                            /\ UNCHANGED <<control>>
                    /\ UNCHANGED previous
    /\ UNCHANGED <<site>>
    /\ UNCHANGED <<items, last_item, item_index, item, articles, article_index,
                   post_id, id_string, image_sources, visit>>

(***************************************************************************)
(* The program is invoked again, with the directories as they were left.   *)
(***************************************************************************)
NextRun ==
    /\ pc \in {"returned", "raised"}
    /\ run < MaxRuns
    /\ run' = run + 1
    /\ pc' = "start"
    /\ result' = -1
    /\ exception' = ""
    /\ failure' = ""
    /\ items' = <<>>
    /\ last_item' = NoItem
    /\ item_index' = 0
    /\ item' = NoItem
    /\ articles' = <<>>
    /\ article_index' = 0
    /\ post_id' = NoStr
    /\ id_string' = NoStr
    /\ image_sources' = <<>>
    /\ source_index' = 0
    /\ subid' = 0
    /\ visit' = 0
    /\ requests' = <<>>
    /\ download' = NoDownload
    /\ written' = <<>>
    /\ previous' = [pc |-> pc, result |-> result, images |-> images,
                    cached |-> DOMAIN cache]
    /\ UNCHANGED <<site, disk, failures>>

Next ==
    \/ DownloadRootPage
    \/ ProcessItems
    \/ ProcessItem
    \/ ProcessPost
    \/ ProcessImage
    \/ EndPost
    \/ EndItem
    \/ NextRun

Spec == Init /\ [][Next]_vars

(***************************************************************************)
(* What the claims speak of.                                               *)
(***************************************************************************)
Ended == pc \in {"returned", "raised"}

\* the anchors of the archive widget of the root page of the site
ArchiveAnchors == BeautifulSoup(PageText(site, PAGE_ROOT)).archive

\* the address of the most recent month: the first anchor of the widget
MostRecentListing == ArchiveAnchors[1].href

IsListing(r) == r.role = "listing"

ListingRequests == SelectSeq(requests, IsListing)

Bypassing == {i \in DOMAIN requests : ~requests[i].use_cache}

(***************************************************************************)
(* C1: run() returns 0 exactly when the crawl completed without a failure, *)
(* and every fetch failure (timeout, non-success status) and every parse   *)
(* failure ends the run by run() returning 1, in no other way.             *)
(***************************************************************************)
C1_ResultTellsFailure ==
    Ended =>
        /\ (pc = "returned" /\ result = 0) <=> (failure = "")
        /\ (failure # "") => (pc = "returned" /\ result = 1)

(***************************************************************************)
(* C2: of the downloads of a run only the listing page of the last archive *)
(* item, the most recent month, bypasses the cache; there is never more    *)
(* than one such download, and there is exactly one once every archive     *)
(* item's listing page has been asked for.  The root page, the other       *)
(* listing pages, the post pages and the images are asked for with caching.*)
(***************************************************************************)
C2_OnlyLastListingBypassesCache ==
    /\ Cardinality(Bypassing) <= 1
    /\ \A i \in Bypassing :
        /\ requests[i].kind = "page"
        /\ requests[i].role = "listing"
        /\ requests[i].href = MostRecentListing
        /\ \A j \in DOMAIN requests : j > i => ~IsListing(requests[j])
    /\ \A i \in DOMAIN requests :
        requests[i].role \in {"root", "post", "image"} => requests[i].use_cache
    /\ (Len(ListingRequests) > 0 /\ Len(ListingRequests) = Len(ArchiveAnchors))
            => Cardinality(Bypassing) = 1
    /\ (pc = "returned" /\ result = 0 /\ Len(ListingRequests) > 0)
            => Cardinality(Bypassing) = 1

C2_Witness ==
    /\ run = 2
    /\ pc = "returned" /\ result = 0
    /\ Len(ListingRequests) = 3
    /\ Cardinality(Bypassing) = 1
    /\ \E i \in DOMAIN requests : requests[i].role = "post" /\ requests[i].use_cache
    /\ \E i \in DOMAIN requests : requests[i].role = "image" /\ requests[i].use_cache

(***************************************************************************)
(* C3: a run after a run that returned 0, on the same site and with the    *)
(* cache left in place, fetches nothing that was cached except the listing *)
(* page of the most recent month, and leaves the image files as they were. *)
(***************************************************************************)
C3_SecondRunIdempotent ==
    (run >= 2 /\ previous.pc = "returned" /\ previous.result = 0) =>
        /\ \A i \in DOMAIN requests :
            (requests[i].fetched /\ requests[i].path \in previous.cached) =>
                (requests[i].role = "listing" /\ requests[i].href = MostRecentListing)
        /\ (pc = "returned" /\ result = 0) => images = previous.images

(***************************************************************************)
(* C4: a download with caching asked for and an entry for its key returns  *)
(* the stored content, fetches nothing and writes nothing; every other     *)
(* download fetches once, stores what it fetched under the key and returns *)
(* it; after a successful download the entry of the key is what was        *)
(* returned.                                                               *)
(***************************************************************************)
C4_CacheReadWriteThrough ==
    download.kind # "none" =>
        IF download.use_cache /\ download.existed
        THEN /\ download.exc = ""
             /\ ~download.fetched
             /\ ~download.wrote
             /\ download.value = download.before
             /\ cache[download.path] = download.value
        ELSE /\ download.fetched
             /\ download.exc = "" =>
                    (download.wrote /\ cache[download.path] = download.value)

(***************************************************************************)
(* C5: a structural parse failure (archive widget, archive anchor href,    *)
(* post ID attribute, title, title anchor, title href, post ID tokens,     *)
(* content block, image source) stops the run where it is met: the item is *)
(* not skipped, and nothing is fetched or written after it in that run.    *)
(***************************************************************************)
RootDefect(soup) ==
    \/ ~soup.hasArchive
    \/ \E k \in DOMAIN soup.archive : ~soup.archive[k].hasHref

ArticleDefect(article) ==
    \/ ~article.hasId
    \/ article.title \in {"none", "noanchor", "nohref"}
    \/ Len(Split(article.id, "-")) # 2

PostDefect(soup) ==
    \/ ~soup.hasContent
    \/ \E k \in DOMAIN soup.images : ~soup.images[k].hasSrc

\* the step downloaded a page successfully, in the given role
Downloaded(role) ==
    /\ Len(requests') = Len(requests) + 1
    /\ download'.role = role
    /\ download'.exc = ""

C5_ParseFailureStopsRun ==
    [][ /\ (pc = "start" /\ Downloaded("root")
                /\ RootDefect(BeautifulSoup(download'.value)))
            => (pc' \in {"returned", "raised"} /\ result' # 0
                    /\ UNCHANGED <<images, written>>)
        /\ (pc = "article" /\ article_index <= Len(articles)
                /\ ArticleDefect(articles[article_index]))
            => (pc' = "returned" /\ result' = 1
                    /\ UNCHANGED <<cache, images, requests, written>>)
        /\ (pc = "article" /\ Downloaded("post")
                /\ PostDefect(BeautifulSoup(download'.value)))
            => (pc' = "returned" /\ result' = 1 /\ UNCHANGED <<images, written>>)
        /\ (pc \in {"returned", "raised"} /\ run' = run)
            => UNCHANGED <<cache, images, requests, written, pc>>
      ]_vars

C5_Witness ==
    /\ pc = "returned" /\ result = 1
    /\ failure = "title_missing"
    /\ articles[article_index].title = "none"
    /\ article_index < Len(articles)
    /\ Len(requests) = 2

(***************************************************************************)
(* C6: an image source that holds none of googleusercontent.com and        *)
(* blogspot.com is skipped without an error, with no fetch, no cache entry *)
(* and no output file, and the crawl goes on with the next source; a       *)
(* source that holds one of them is downloaded and, once its download      *)
(* succeeded, written.                                                     *)
(***************************************************************************)
AllowListed(url) ==
    \/ Contains(url, <<"googleusercontent", ".", "com">>)
    \/ Contains(url, <<"blogspot", ".", "com">>)

C6_OnlyAllowListedSourcesDownloaded ==
    [][ (pc = "image" /\ source_index <= Len(image_sources)) =>
            LET source == image_sources[source_index]
            IN  IF ~AllowListed(source)
                THEN /\ UNCHANGED <<cache, images, requests, written, failure>>
                     /\ pc' = "image"
                     /\ source_index' = source_index + 1
                ELSE /\ Len(requests') = Len(requests) + 1
                     /\ download'.kind = "image"
                     /\ download'.href = source
                     /\ download'.exc = "" =>
                            /\ Len(written') = Len(written) + 1
                            /\ written'[Len(written')].source = source
                            /\ IsFile(images', written'[Len(written')].path)
                            /\ images'[written'[Len(written')].path] = download'.value
                            /\ IsFile(cache', ImagePath(source))
                            /\ pc' = "image"
                            /\ source_index' = source_index + 1
      ]_vars

C6_Witness ==
    /\ pc = "image"
    /\ source_index = 4
    /\ image_sources[3] = ImgNedroid
    /\ Len(written) = 2
    /\ written[1].source = ImgPng /\ written[2].source = ImgBig
    /\ \A i \in DOMAIN requests : requests[i].href # ImgNedroid
    /\ ~IsFile(cache, ImagePath(ImgNedroid))

(***************************************************************************)
(* C7: an image written for a post of the archive item (year, month) with  *)
(* post ID <prefix>-<n> is named <year, 4 digits>-<month, 2 digits>-       *)
(* <n, 10 digits>-<subindex, 4 digits><ext>; the subindex is the number of *)
(* images written before it for that post, so it starts at 0 for every     *)
(* post and goes up by one per image written.                              *)
(***************************************************************************)
\* the part of a name from position `from`, `count` tokens long
Field(name, from, count) == SubSeq(name, from, from + count - 1)

AllDigits(s) == \A i \in DOMAIN s : s[i] \in {"0", "1", "2", "3", "4", "5", "6", "7", "8", "9"}

\* the year and month segments of the address .../<year>/<month>/
HrefSegments(href) == FilterNonEmpty(Split(href, "/"))

WrittenBefore(i) == {j \in 1..(i - 1) : written[j].visit = written[i].visit}

C7_OutputNaming ==
    \A i \in DOMAIN written :
        LET w == written[i]
            name == SubSeq(w.path, Len(IMAGES_DIR) + 2, Len(w.path))
            segments == HrefSegments(w.item.href)
        IN  /\ SubSeq(w.path, 1, Len(IMAGES_DIR) + 1) = IMAGES_DIR \o <<"/">>
            /\ Len(name) = 23 + Len(w.ext)
            /\ AllDigits(Field(name, 1, 4))
            /\ IntOf(Field(name, 1, 4)) = IntOf(segments[Len(segments) - 1])
            /\ name[5] = "-"
            /\ AllDigits(Field(name, 6, 2))
            /\ IntOf(Field(name, 6, 2)) = IntOf(segments[Len(segments)])
            /\ name[8] = "-"
            /\ AllDigits(Field(name, 9, 10))
            /\ IntOf(Field(name, 9, 10)) = IntOf(Split(w.post_id, "-")[2])
            /\ name[19] = "-"
            /\ AllDigits(Field(name, 20, 4))
            /\ IntOf(Field(name, 20, 4)) = Cardinality(WrittenBefore(i))
            /\ SubSeq(name, 24, Len(name)) = w.ext
            /\ w.ext[1] = "."
            /\ IsFile(images, w.path)

C7_Witness ==
    /\ Len(written) >= 5
    /\ written[1].visit # written[4].visit
    /\ written[3].path =
            <<"images", "/", "2", "0", "1", "1", "-", "0", "4", "-",
              "0", "0", "0", "0", "0", "0", "0", "0", "0", "7", "-",
              "0", "0", "0", "2", ".", "dat">>
    /\ written[4].post_id = <<"post", "-", "4", "2">>
    /\ written[4].path =
            <<"images", "/", "2", "0", "1", "1", "-", "0", "4", "-",
              "0", "0", "0", "0", "0", "0", "0", "0", "4", "2", "-",
              "0", "0", "0", "0", ".", "webp">>

(***************************************************************************)
(* C8: the extension of a written image is .png for bytes that start with  *)
(* the PNG magic, else .jpg for the JPEG/JFIF magic, else .gif for GIF87a  *)
(* or GIF89a, else the extension of the path of the source URL, else .dat; *)
(* and the file is there.                                                  *)
(***************************************************************************)
StartsWith(data, magic) == Len(data) >= Len(magic) /\ SubSeq(data, 1, Len(magic)) = magic

ReferenceExt(data, url) ==
    IF StartsWith(data, <<137, 80, 78, 71>>) THEN <<".", "png">>
    ELSE IF StartsWith(data, <<255, 216, 255, 224, 0, 16, 74, 70, 73, 70>>) THEN <<".", "jpg">>
    ELSE IF StartsWith(data, <<71, 73, 70, 56, 55, 97>>)
            \/ StartsWith(data, <<71, 73, 70, 56, 57, 97>>) THEN <<".", "gif">>
    ELSE IF SplitExt(UrlPath(url)) # <<>> THEN SplitExt(UrlPath(url))
    ELSE <<".", "dat">>

C8_ExtensionClassification ==
    \A i \in DOMAIN written :
        /\ written[i].ext = ReferenceExt(written[i].data, written[i].source)
        /\ IsFile(images, written[i].path)

(***************************************************************************)
(* C9: for an archive widget of N anchors .../<year>/<month>/ the crawl    *)
(* builds N items with the year and month of the anchors and asks for      *)
(* their listing pages in reverse document order, each once; the one asked *)
(* for last, and the only one refreshed, is the first anchor; a successful *)
(* run asked for all N; an empty archive list processes nothing and        *)
(* succeeds.                                                               *)
(***************************************************************************)
WellFormedAnchor(anchor) ==
    /\ anchor.hasHref
    /\ Len(HrefSegments(anchor.href)) >= 2
    /\ AllDigits(HrefSegments(anchor.href)[Len(HrefSegments(anchor.href))])
    /\ AllDigits(HrefSegments(anchor.href)[Len(HrefSegments(anchor.href)) - 1])

WellFormedArchive ==
    /\ BeautifulSoup(PageText(site, PAGE_ROOT)).hasArchive
    /\ \A k \in DOMAIN ArchiveAnchors : WellFormedAnchor(ArchiveAnchors[k])

\* the anchor whose item is the k-th of the crawl
AnchorOfItem(k) == ArchiveAnchors[Len(ArchiveAnchors) + 1 - k]

C9_ArchiveTraversalOrder ==
    WellFormedArchive =>
        LET N == Len(ArchiveAnchors)
            asked == ListingRequests
        IN  /\ Len(asked) <= N
            /\ \A k \in DOMAIN asked :
                /\ asked[k].href = AnchorOfItem(k).href
                /\ asked[k].use_cache <=> (k < N)
            /\ pc = "process_items" =>
                /\ Len(items) = N
                /\ \A k \in DOMAIN items :
                    LET segments == HrefSegments(AnchorOfItem(k).href)
                    IN  /\ items[k].href = AnchorOfItem(k).href
                        /\ items[k].year = IntOf(segments[Len(segments) - 1])
                        /\ items[k].month = IntOf(segments[Len(segments)])
            /\ (pc = "returned" /\ result = 0) => Len(asked) = N
            /\ (N = 0 /\ Ended /\ requests[1].exc = "") =>
                /\ pc = "returned" /\ result = 0
                /\ Len(requests) = 1
                /\ written = <<>>

C9_Witness ==
    /\ WellFormedArchive
    /\ pc = "returned" /\ result = 0
    /\ Len(ListingRequests) = 3
    /\ ListingRequests[1].href = HrefApr
    /\ ListingRequests[3].href = HrefOct
    /\ ~ListingRequests[3].use_cache

(***************************************************************************)
(* C10: a failed fetch leaves the cache directory and the images directory *)
(* as they were; when the re-fetch of the most recent listing page fails,  *)
(* the copy cached before is still there with its content.                 *)
(***************************************************************************)
C10_FailedFetchLeavesDiskUnchanged ==
    [][ (Len(requests') = Len(requests) + 1 /\ download'.fetched /\ download'.exc # "") =>
            /\ cache' = cache
            /\ images' = images
            /\ written' = written
            /\ download'.existed =>
                    (IsFile(cache', download'.path)
                        /\ cache'[download'.path] = download'.before)
            /\ ~download'.existed => ~IsFile(cache', download'.path)
      ]_vars

C10_Witness ==
    /\ download.role = "listing"
    /\ ~download.use_cache
    /\ download.existed
    /\ download.fetched
    /\ download.exc # ""
    /\ Ended
    /\ IsFile(cache, download.path)
    /\ cache[download.path] = download.before

====
